---- MODULE Spec2Model ----
(***************************************************************************)
(* Triangle rasteriser of rusteriser (src/src/triangle.rs): the coverage   *)
(* test point_in_triangle with its f32 arithmetic, barycentric, the eager  *)
(* draw and the lazy TriangleIterator.                                     *)
(*                                                                         *)
(* f32 values are modelled bit-exactly as sign / 24-bit significand /      *)
(* exponent with IEEE-754 round-to-nearest-even.  All inputs are u32       *)
(* coordinates below 2^11, so every `as f32` cast, every difference and    *)
(* every sum of two products of differences is an integer below 2^24 and   *)
(* therefore exact in f32; those are kept as integers.  Only the           *)
(* operations that round (division, the products with a quotient, the      *)
(* subtractions that follow and the EPSILON constants) go through the      *)
(* F32 operators below.  Exponents stay far inside the f32 range, so       *)
(* overflow and subnormals do not arise.                                   *)
(***************************************************************************)
EXTENDS Integers, Sequences, FiniteSets, TLC

\* ------------------------------------------------------------------ f32

\* Number of bits of 1 <= n < 2^8.
BitLen8(n) ==
    IF n < 16
    THEN (IF n < 4 THEN (IF n < 2 THEN 1 ELSE 2) ELSE (IF n < 8 THEN 3 ELSE 4))
    ELSE (IF n < 64 THEN (IF n < 32 THEN 5 ELSE 6) ELSE (IF n < 128 THEN 7 ELSE 8))

\* Number of bits of 1 <= n < 2^31.
BitLen(n) ==
    IF n < 65536
    THEN (IF n < 256 THEN BitLen8(n) ELSE 8 + BitLen8(n \div 256))
    ELSE (IF n < 16777216 THEN 16 + BitLen8(n \div 65536)
          ELSE 24 + BitLen8(n \div 16777216))

F32Zero == [k |-> "fin", s |-> 0, m |-> 0, e |-> 0]
F32NaN == [k |-> "nan", s |-> 0, m |-> 0, e |-> 0]
F32Inf(sg) == [k |-> "inf", s |-> sg, m |-> 0, e |-> 0]

Sign(n) == IF n > 0 THEN 1 ELSE IF n < 0 THEN -1 ELSE 0
Abs(n) == IF n < 0 THEN -n ELSE n

\* The f32 nearest (ties to even) to sg * (S + f) * 2^ex, where 0 <= S < 2^30
\* and f = 0 when ~sticky, 0 < f < 1 when sticky.
F32Round(sg, S, sticky, ex) ==
    IF S = 0 THEN F32Zero
    ELSE LET p == BitLen(S) IN
         IF p <= 24
         THEN [k |-> "fin", s |-> sg, m |-> S * 2^(24 - p), e |-> ex - (24 - p)]
         ELSE LET sh == p - 24
                  q == S \div 2^sh
                  rem == S % 2^sh
                  half == 2^(sh - 1)
                  up == rem > half \/ (rem = half /\ (sticky \/ q % 2 = 1))
                  q1 == IF up THEN q + 1 ELSE q
              IN IF q1 = 2^24
                 THEN [k |-> "fin", s |-> sg, m |-> 2^23, e |-> ex + sh + 1]
                 ELSE [k |-> "fin", s |-> sg, m |-> q1, e |-> ex + sh]

\* `n as f32` for an integer |n| < 2^24 (exact).
F32FromInt(n) == F32Round(Sign(n), Abs(n), FALSE, 0)

F32Neg(a) == [a EXCEPT !.s = -a.s]

\* -1, 0, 1 as a < b, a = b, a > b, for finite a and b.
F32CmpMag(a, b) ==
    IF a.s = 0 /\ b.s = 0 THEN 0
    ELSE IF a.s = 0 THEN -1
    ELSE IF b.s = 0 THEN 1
    ELSE IF a.e # b.e THEN (IF a.e < b.e THEN -1 ELSE 1)
    ELSE IF a.m # b.m THEN (IF a.m < b.m THEN -1 ELSE 1)
    ELSE 0

F32Cmp(a, b) ==
    IF a.s # b.s THEN (IF a.s < b.s THEN -1 ELSE 1)
    ELSE IF a.s = 0 THEN 0
    ELSE a.s * F32CmpMag(a, b)

\* IEEE comparisons: every comparison with NaN is false.
F32Lt(a, b) ==
    IF a.k = "nan" \/ b.k = "nan" THEN FALSE
    ELSE IF a.k = "inf" THEN a.s < 0 /\ ~(b.k = "inf" /\ b.s < 0)
    ELSE IF b.k = "inf" THEN b.s > 0
    ELSE F32Cmp(a, b) < 0

F32Le(a, b) ==
    IF a.k = "nan" \/ b.k = "nan" THEN FALSE
    ELSE IF a.k = "inf" THEN a.s < 0 \/ (b.k = "inf" /\ b.s > 0)
    ELSE IF b.k = "inf" THEN b.s > 0
    ELSE F32Cmp(a, b) <= 0

\* |a| + |b| (finite, nonzero, |a| >= |b|) with sign sg, in units of 2^(a.e - 3).
F32AddMag(sg, a, b) ==
    LET d == a.e - b.e
        A == a.m * 8
        B == IF d <= 3 THEN b.m * 2^(3 - d)
             ELSE IF d - 3 >= 24 THEN 0 ELSE b.m \div 2^(d - 3)
        sticky == IF d <= 3 THEN FALSE
                  ELSE IF d - 3 >= 24 THEN TRUE ELSE b.m % 2^(d - 3) # 0
    IN F32Round(sg, A + B, sticky, a.e - 3)

\* |a| - |b| (finite, nonzero, |a| >= |b|) with sign sg.
F32SubMag(sg, a, b) ==
    LET d == a.e - b.e
        A == a.m * 8
        B == IF d <= 3 THEN b.m * 2^(3 - d)
             ELSE IF d - 3 >= 24 THEN 0 ELSE b.m \div 2^(d - 3)
        sticky == IF d <= 3 THEN FALSE
                  ELSE IF d - 3 >= 24 THEN TRUE ELSE b.m % 2^(d - 3) # 0
    IN F32Round(sg, IF sticky THEN A - B - 1 ELSE A - B, sticky, a.e - 3)

\* a + b for finite a and b.
F32Add(a, b) ==
    IF a.s = 0 THEN b
    ELSE IF b.s = 0 THEN a
    ELSE LET c == F32CmpMag(a, b)
             hi == IF c >= 0 THEN a ELSE b
             lo == IF c >= 0 THEN b ELSE a
         IN IF a.s = b.s THEN F32AddMag(a.s, hi, lo)
            ELSE IF c = 0 THEN F32Zero
            ELSE F32SubMag(hi.s, hi, lo)

F32Sub(a, b) == F32Add(a, F32Neg(b))

\* a * b for finite a and b: the 48-bit product of the significands from
\* 12-bit halves, reduced to 26 bits and a sticky bit.
F32Mul(a, b) ==
    IF a.s = 0 \/ b.s = 0 THEN F32Zero
    ELSE LET a1 == a.m \div 4096
             a0 == a.m % 4096
             b1 == b.m \div 4096
             b0 == b.m % 4096
             mid == a1 * b0 + a0 * b1
             low == (mid % 4096) * 4096 + a0 * b0
             hi == a1 * b1 + mid \div 4096 + low \div 2^24
             lo == low % 2^24
         IN F32Round(a.s * b.s, hi * 4 + lo \div 2^22, lo % 2^22 # 0, a.e + b.e + 22)

\* One step of long division: c more quotient bits.  qr = <<quotient, remainder>>.
DivStep(qr, d, c) ==
    <<qr[1] * 2^c + (qr[2] * 2^c) \div d, (qr[2] * 2^c) % d>>

\* (n as f32) / (d as f32) for integers |n|, |d| < 2^24: IEEE division,
\* 0/0 = NaN and x/0 = +-inf.
F32Div(n, d) ==
    IF d = 0 THEN (IF n = 0 THEN F32NaN ELSE F32Inf(Sign(n)))
    ELSE IF n = 0 THEN F32Zero
    ELSE LET pn == BitLen(Abs(n))
             pd == BitLen(Abs(d))
             mn == Abs(n) * 2^(24 - pn)
             md == Abs(d) * 2^(24 - pd)
             s0 == <<mn \div md, mn % md>>
             s1 == DivStep(s0, md, 6)
             s2 == DivStep(s1, md, 6)
             s3 == DivStep(s2, md, 6)
             s4 == DivStep(s3, md, 7)
         IN F32Round(Sign(n) * Sign(d), s4[1], s4[2] # 0, (pn - pd) - 25)

F32One == F32FromInt(1)

\* ------------------------------------------------------- coverage test

\* cgmath's Vector3::cross on integer-valued vectors (exact below 2^24).
cross(a, b) ==
    <<a[2] * b[3] - a[3] * b[2], a[3] * b[1] - a[1] * b[3], a[1] * b[2] - a[2] * b[1]>>

\* The vector u both barycentric and naive_point_in_triangle start from.
CrossU(point, tri) ==
    cross(<<tri[3].x - tri[1].x, tri[2].x - tri[1].x, tri[1].x - point[1]>>,
          <<tri[3].y - tri[1].y, tri[2].y - tri[1].y, tri[1].y - point[2]>>)

\* The weights (1 - (u.x + u.y) / u.z, u.y / u.z, u.x / u.z), for u.z /= 0.
Weights(u) ==
    <<F32Sub(F32One, F32Div(u[1] + u[2], u[3])), F32Div(u[2], u[3]), F32Div(u[1], u[3])>>

None == [some |-> FALSE, w |-> <<>>]
Some(w) == [some |-> TRUE, w |-> w]

barycentric(point, tri) ==
    LET u == CrossU(point, tri) IN
    IF Abs(u[3]) < 1 THEN None
    ELSE LET result == Weights(u) IN
         IF F32Lt(result[1], F32Zero) \/ F32Lt(result[2], F32Zero)
                \/ F32Lt(result[3], F32Zero)
         THEN None
         ELSE Some(result)

\* (min_x, min_y, max_x, max_y)
Min3(a, b, c) == IF a <= b /\ a <= c THEN a ELSE IF b <= c THEN b ELSE c
Max3(a, b, c) == IF a >= b /\ a >= c THEN a ELSE IF b >= c THEN b ELSE c

bounding_box(positions) ==
    <<Min3(positions[1].x, positions[2].x, positions[3].x),
      Min3(positions[1].y, positions[2].y, positions[3].y),
      Max3(positions[1].x, positions[2].x, positions[3].x),
      Max3(positions[1].y, positions[2].y, positions[3].y)>>

\* naive_point_in_triangle testing u.z < 1.0 where the code tests u.z.abs() < 1.0.
naive_point_in_triangle_no_abs(point, triangle) ==
    LET u == CrossU(point, triangle) IN
    IF u[3] < 1 THEN FALSE
    ELSE LET r == Weights(u) IN
         F32Lt(F32Zero, r[1]) /\ F32Lt(F32Zero, r[2]) /\ F32Lt(F32Zero, r[3])

naive_point_in_triangle(point, triangle) ==
    LET u == CrossU(point, triangle) IN
    IF Abs(u[3]) < 1 THEN FALSE
    ELSE LET r == Weights(u) IN
         F32Lt(F32Zero, r[1]) /\ F32Lt(F32Zero, r[2]) /\ F32Lt(F32Zero, r[3])

\* EPSILON as a tolerance of one whole pixel.
EPSILON_one_pixel == F32FromInt(1)

\* 0.01f32 = 0x3C23D70A = 10737418 * 2^-30
EPSILON == [k |-> "fin", s |-> 1, m |-> 10737418, e |-> -30]
EPSILON_SQUARE == F32Mul(EPSILON, EPSILON)

point_in_triangle_bounding_box(x1, y1, x2, y2, x3, y3, point) ==
    LET px == F32FromInt(point[1])
        py == F32FromInt(point[2])
        x_min == F32Sub(F32FromInt(Min3(x1, x2, x3)), EPSILON)
        x_max == F32Add(F32FromInt(Max3(x1, x2, x3)), EPSILON)
        y_min == F32Sub(F32FromInt(Min3(y1, y2, y3)), EPSILON)
        y_max == F32Add(F32FromInt(Max3(y1, y2, y3)), EPSILON)
    IN ~(F32Lt(px, x_min) \/ F32Lt(x_max, px) \/ F32Lt(py, y_min) \/ F32Lt(y_max, py))

distance_square_point_to_segment(x1, y1, x2, y2, px, py) ==
    LET p1_p2_square_length == (x2 - x1) * (x2 - x1) + (y2 - y1) * (y2 - y1)
        dot_product == F32Div((px - x1) * (x2 - x1) + (py - y1) * (y2 - y1),
                              p1_p2_square_length)
    IN IF F32Lt(dot_product, F32Zero)
       THEN F32FromInt((px - x1) * (px - x1) + (py - y1) * (py - y1))
       ELSE IF F32Le(dot_product, F32One)
       THEN LET p_p1_square_length == (x1 - px) * (x1 - px) + (y1 - py) * (y1 - py)
            IN F32Sub(F32FromInt(p_p1_square_length),
                      F32Mul(F32Mul(dot_product, dot_product),
                             F32FromInt(p1_p2_square_length)))
       ELSE F32FromInt((px - x2) * (px - x2) + (py - y2) * (py - y2))

point_in_triangle(point, triangle) ==
    LET x1 == triangle[1].x
        y1 == triangle[1].y
        x2 == triangle[2].x
        y2 == triangle[2].y
        x3 == triangle[3].x
        y3 == triangle[3].y
        px == point[1]
        py == point[2]
    IN IF ~point_in_triangle_bounding_box(x1, y1, x2, y2, x3, y3, point) THEN FALSE
       ELSE IF naive_point_in_triangle(point, triangle) THEN TRUE
       ELSE IF F32Le(distance_square_point_to_segment(x1, y1, x2, y2, px, py), EPSILON_SQUARE)
       THEN TRUE
       ELSE IF F32Le(distance_square_point_to_segment(x2, y2, x3, y3, px, py), EPSILON_SQUARE)
       THEN TRUE
       ELSE IF F32Le(distance_square_point_to_segment(x3, y3, x1, y1, px, py), EPSILON_SQUARE)
       THEN TRUE
       ELSE FALSE

\* ------------------------------------------------------------- inputs

\* Vertices of the small grid: every triangle over 0..MaxCoord x 0..MaxCoord.
MaxCoord == 2
\* Screen-scale probes: pixels within Window of a vertex of a test triangle.
Window == 4

WINDOW_WIDTH == 512
WINDOW_HEIGHT == 512

Vec(a, b) == [x |-> a, y |-> b]

Coords == 0..MaxCoord
GridVertices == {Vec(a, b) : a \in Coords, b \in Coords}
GridTriangles == {<<a, b, c>> : a \in GridVertices, b \in GridVertices, c \in GridVertices}
GridPoints == {<<a, b>> : a \in Coords, b \in Coords}

\* The triangles of test_point_in_triangle, bench_triangle and bench_triangle_iter.
TestTri1 == <<Vec(245, 391), Vec(115, 200), Vec(306, 438)>>
TestTri2 == <<Vec(375, 186), Vec(2, 257), Vec(483, 5)>>
BenchTri == <<Vec(0, 0), Vec(0, WINDOW_HEIGHT), Vec(WINDOW_WIDTH, WINDOW_HEIGHT)>>
BenchIterTri ==
    <<Vec(0, 0), Vec(0, WINDOW_HEIGHT - 1), Vec(WINDOW_WIDTH - 1, WINDOW_HEIGHT - 1)>>
\* A triangle seen edge-on: its third vertex falls on its second.
Collapse(tri) == <<tri[1], tri[2], tri[2]>>
ScreenTriangles ==
    {TestTri1, TestTri2, BenchTri, BenchIterTri, Collapse(TestTri1), Collapse(TestTri2)}

\* The points test_point_in_triangle asks about.
TestPoints(tri) ==
    IF tri = TestTri1 THEN {<<234, 357>>, <<236, 277>>}
    ELSE IF tri = TestTri2 THEN {<<340, 110>>, <<288, 82>>, <<375, 186>>}
    ELSE {}

\* Pixels (usize, so never negative) within Window of a vertex of tri.
Probes(tri) ==
    {p \in {<<tri[i].x + dx, tri[i].y + dy>> :
                i \in 1..3, dx \in -Window..Window, dy \in -Window..Window} :
        p[1] >= 0 /\ p[2] >= 0}

Queries ==
    {<<t, p>> : t \in GridTriangles, p \in GridPoints}
        \cup UNION {{<<t, p>> : p \in TestPoints(t) \cup Probes(t)} : t \in ScreenTriangles}

\* ---------------------------------------------------------------- state

VARIABLES
    triangle,       \* the triangle: three vertices with u32 coordinates
    point,          \* query: the pixel asked about, (usize, usize)
    phase,          \* query: "asked" -> "tested" -> "weighed"
    covered,        \* query: what point_in_triangle returned
    strict,         \* query: what naive_point_in_triangle returned
    weights,        \* query: what barycentric returned for a covered pixel
    buffer_width,   \* draw: the buffer_width argument
    buffer_height,  \* draw: buffer.len() / buffer_width
    buffer,         \* draw: the buffer, index -> pixel word
    pc,             \* "draw" -> "returned" -> "iter" -> "done", or "panicked"
    y,              \* draw: the loop variable of `for y in bb_min_y..bb_max_y`
    drawn,          \* draw: the pixels whose buffer entry draw has written
    it,             \* the TriangleIterator's fields
    rows            \* the rows TriangleIterator::next has returned so far

queryVars == <<point, phase, covered, strict, weights>>
rasterVars == <<buffer_width, buffer_height, buffer, pc, y, drawn, it, rows>>
vars == <<triangle, point, phase, covered, strict, weights,
          buffer_width, buffer_height, buffer, pc, y, drawn, it, rows>>

\* A buffer entry as vec![0; n] leaves it, and color.bgra() of the colour drawn.
Cleared == "0x00000000"
Red == "Color::red().bgra()"

NoIterator == [bb_min_x |-> 0, bb_max_x |-> 0, bb_max_y |-> 0, y |-> 0]

\* --------------------------------------------------------------- raster

\* utils::xy
xy(px, py, width) == py * width + px

\* line::LineIterator over a horizontal run: (x0, py) .. (x1, py), both ends.
LineIterator(x0, y0, x1, y1) == [i \in 1..(x1 - x0 + 1) |-> <<x0 + i - 1, y0>>]

\* The pixels of scanline py that pass the filter, in the order of the line.
CoveredRow(min_x, max_x, py, tri) ==
    LET InTriangle(p) == point_in_triangle(p, tri)
    IN SelectSeq(LineIterator(min_x, py, max_x, py), InTriangle)

SetMin(S) == CHOOSE m \in S : \A n \in S : m <= n
Range(f) == {f[i] : i \in DOMAIN f}

\* Buffers as the tests allocate them: square, the triangle's largest coordinate
\* either the first one outside (bench_triangle) or the last one inside
\* (bench_triangle_iter).
BufferSizes == {MaxCoord, MaxCoord + 1}

Init ==
    /\ triangle \in GridTriangles
    /\ \E n \in BufferSizes :
        /\ buffer_width = n
        /\ buffer_height = n
        /\ buffer = [j \in 0..(n * n - 1) |-> Cleared]
    /\ pc = "draw"
    /\ y = bounding_box(triangle)[2]
    /\ drawn = {}
    /\ it = NoIterator
    /\ rows = <<>>
    /\ point = <<0, 0>>
    /\ phase = "idle"
    /\ covered = FALSE
    /\ strict = FALSE
    /\ weights = None

\* How many of the pixels pts (in order) are written before an index falls
\* past the end of a buffer of len entries: all of them when none does.
Written(pts, width, len) ==
    LET bad == {i \in 1..Len(pts) : xy(pts[i][1], pts[i][2], width) >= len}
    IN IF bad = {} THEN Len(pts) ELSE SetMin(bad) - 1

\* One iteration of draw's `for y` loop: the covered pixels of scanline y are
\* written in line order; an index past the end of the buffer panics.
DrawScanline ==
    /\ pc = "draw"
    /\ y < bounding_box(triangle)[4]
    /\ \E pts \in {CoveredRow(bounding_box(triangle)[1], bounding_box(triangle)[3],
                              y, triangle)} :
       \E n \in {Written(pts, buffer_width, buffer_width * buffer_height)} :
          /\ buffer' = [j \in DOMAIN buffer |->
                            IF \E i \in 1..n : xy(pts[i][1], pts[i][2], buffer_width) = j
                            THEN Red ELSE buffer[j]]
          /\ drawn' = drawn \cup {pts[i] : i \in 1..n}
          /\ IF n = Len(pts)
             THEN pc' = "draw" /\ y' = y + 1
             ELSE pc' = "panicked" /\ y' = y
    /\ UNCHANGED <<triangle, buffer_width, buffer_height, it, rows>>
    /\ UNCHANGED queryVars

\* The range bb_min_y..bb_max_y is exhausted: draw returns.
DrawReturn ==
    /\ pc = "draw"
    /\ y >= bounding_box(triangle)[4]
    /\ pc' = "returned"
    /\ UNCHANGED <<triangle, buffer_width, buffer_height, buffer, y, drawn, it, rows>>
    /\ UNCHANGED queryVars

\* TriangleIterator::new
IterNew ==
    /\ pc = "returned"
    /\ LET bb == bounding_box(triangle)
       IN it' = [bb_min_x |-> bb[1], bb_max_x |-> bb[3], bb_max_y |-> bb[4], y |-> bb[2]]
    /\ pc' = "iter"
    /\ UNCHANGED <<triangle, buffer_width, buffer_height, buffer, y, drawn, rows>>
    /\ UNCHANGED queryVars

\* TriangleIterator::next: None once y has passed bb_max_y, else y is
\* incremented and the covered pixels of the new scanline are returned.
IterNext ==
    /\ pc = "iter"
    /\ IF it.y > it.bb_max_y
       THEN /\ pc' = "done"
            /\ UNCHANGED <<it, rows>>
       ELSE /\ it' = [it EXCEPT !.y = it.y + 1]
            /\ rows' = Append(rows, CoveredRow(it.bb_min_x, it.bb_max_x, it.y + 1, triangle))
            /\ pc' = "iter"
    /\ UNCHANGED <<triangle, buffer_width, buffer_height, buffer, y, drawn>>
    /\ UNCHANGED queryVars

Next == DrawScanline \/ DrawReturn \/ IterNew \/ IterNext

Spec == Init /\ [][Next]_vars

\* -------------------------------------------------------------- queries

QueryInit ==
    /\ \E q \in Queries : triangle = q[1] /\ point = q[2]
    /\ phase = "asked"
    /\ covered = FALSE
    /\ strict = FALSE
    /\ weights = None
    /\ buffer_width = 0
    /\ buffer_height = 0
    /\ buffer = <<>>
    /\ pc = "idle"
    /\ y = 0
    /\ drawn = {}
    /\ it = NoIterator
    /\ rows = <<>>

\* The coverage test of one pixel.
PointInTriangle ==
    /\ phase = "asked"
    /\ covered' = point_in_triangle(point, triangle)
    /\ strict' = naive_point_in_triangle(point, triangle)
    /\ phase' = "tested"
    /\ UNCHANGED <<triangle, point, weights>>
    /\ UNCHANGED rasterVars

\* The weights of a pixel the coverage test reported.
Barycentric ==
    /\ phase = "tested"
    /\ covered
    /\ weights' = barycentric(point, triangle)
    /\ phase' = "weighed"
    /\ UNCHANGED <<triangle, point, covered, strict>>
    /\ UNCHANGED rasterVars

QueryNext == PointInTriangle \/ Barycentric

QuerySpec == QueryInit /\ [][QueryNext]_vars

\* ------------------------------------------------------------- geometry
\* Exact integer geometry the claims are stated in.

\* Twice the signed area of (a, b, p): a and b vertices, p a pixel.
Orient(a, b, p) == (b.x - a.x) * (p[2] - a.y) - (b.y - a.y) * (p[1] - a.x)

Area2(tri) == Orient(tri[1], tri[2], <<tri[3].x, tri[3].y>>)

StrictlyInside(p, tri) ==
    LET o1 == Orient(tri[1], tri[2], p)
        o2 == Orient(tri[2], tri[3], p)
        o3 == Orient(tri[3], tri[1], p)
    IN (o1 > 0 /\ o2 > 0 /\ o3 > 0) \/ (o1 < 0 /\ o2 < 0 /\ o3 < 0)

\* p lies on the closed segment from a to b.
OnSegment(a, b, p) ==
    /\ Orient(a, b, p) = 0
    /\ (p[1] - a.x) * (p[1] - b.x) <= 0
    /\ (p[2] - a.y) * (p[2] - b.y) <= 0

OnEdge(p, tri) ==
    OnSegment(tri[1], tri[2], p) \/ OnSegment(tri[2], tri[3], p) \/ OnSegment(tri[3], tri[1], p)

\* The distance from p to the closed segment from a to b is at most 1/100:
\* past an end the squared distance is an integer, so p is that end; beside the
\* segment it is c^2 / len2 with c = Orient(a, b, p).
WithinEpsilon(a, b, p) ==
    LET len2 == (b.x - a.x) * (b.x - a.x) + (b.y - a.y) * (b.y - a.y)
        dot == (p[1] - a.x) * (b.x - a.x) + (p[2] - a.y) * (b.y - a.y)
        c == Orient(a, b, p)
    IN IF len2 = 0 \/ dot < 0 THEN p = <<a.x, a.y>>
       ELSE IF dot > len2 THEN p = <<b.x, b.y>>
       ELSE Abs(c) <= 40 /\ 10000 * c * c <= len2

NearEdge(p, tri) ==
    \/ WithinEpsilon(tri[1], tri[2], p)
    \/ WithinEpsilon(tri[2], tri[3], p)
    \/ WithinEpsilon(tri[3], tri[1], p)

InBoundingBox(p, tri) ==
    LET bb == bounding_box(tri)
    IN bb[1] <= p[1] /\ p[1] <= bb[3] /\ bb[2] <= p[2] /\ p[2] <= bb[4]

Orders == {<<1, 2, 3>>, <<1, 3, 2>>, <<2, 1, 3>>, <<2, 3, 1>>, <<3, 1, 2>>, <<3, 2, 1>>}
Permute(tri, o) == <<tri[o[1]], tri[o[2]], tri[o[3]]>>

\* Every pixel in a row the iterator has returned.
RowPixels == UNION {Range(rows[k]) : k \in 1..Len(rows)}

\* --------------------------------------------------------------- claims

\* C1: once both have run, the pixels the eager draw wrote are exactly the
\* pixels in the rows TriangleIterator yielded.
C1_EagerEqualsLazy == pc = "done" => drawn = RowPixels

\* C2: for a triangle of positive area, every pixel draw wrote and every pixel
\* in a row of TriangleIterator lies in the bounding box of the vertices.
C2_InBoundingBox ==
    Area2(triangle) # 0 => \A p \in drawn \cup RowPixels : InBoundingBox(p, triangle)

C2_Witness ==
    /\ pc = "done"
    /\ Area2(triangle) # 0
    /\ drawn # {}
    /\ \E k \in 1..Len(rows) : rows[k] # <<>>

\* C3: a pixel strictly inside a triangle of positive area is covered, under
\* each of the six orders of the vertices.
C3_InteriorCovered ==
    (phase # "asked" /\ Area2(triangle) # 0 /\ StrictlyInside(point, triangle))
        => /\ covered
           /\ \A o \in Orders : point_in_triangle(point, Permute(triangle, o))

C3_Witness ==
    /\ phase = "tested"
    /\ triangle = TestTri1
    /\ StrictlyInside(point, triangle)
    /\ covered

\* C4: when draw has returned, every covered pixel of the bounding box (that
\* the buffer has an entry for), the row y = max_y included, holds the colour.
C4_EveryScanlineDrawn ==
    pc = "returned" =>
        LET bb == bounding_box(triangle)
        IN \A px \in bb[1]..bb[3], py \in bb[2]..bb[4] :
              (px < buffer_width /\ py < buffer_height
                    /\ point_in_triangle(<<px, py>>, triangle))
                 => buffer[xy(px, py, buffer_width)] = Red

\* C5: the k-th row the iterator returns (k from 0) is scanline min_y + k, and
\* it returns None after max_y - min_y + 1 rows.
C5_RowPerScanline ==
    LET bb == bounding_box(triangle)
    IN /\ \A k \in 1..Len(rows) :
            rows[k] = CoveredRow(bb[1], bb[3], bb[2] + k - 1, triangle)
       /\ pc = "done" => Len(rows) = bb[4] - bb[2] + 1

\* C6: a pixel on one of the three edge segments, a vertex included, is covered.
C6_EdgePixelsCovered ==
    (phase # "asked" /\ OnEdge(point, triangle)) => covered

\* C7: a pixel neither strictly inside the triangle nor within 0.01 of one of
\* its edge segments is not covered.
C7_OnlyInsideOrNearEdge ==
    (phase # "asked" /\ ~StrictlyInside(point, triangle) /\ ~NearEdge(point, triangle))
        => ~covered

\* C8: draw does not index past the end of the buffer, and every entry it has
\* changed is the entry of a covered pixel inside the image.
C8_OutOfBoundsSkipped ==
    /\ pc # "panicked"
    /\ \A j \in DOMAIN buffer :
          buffer[j] = Red =>
             \E p \in drawn : /\ p[1] < buffer_width
                              /\ p[2] < buffer_height
                              /\ xy(p[1], p[2], buffer_width) = j

\* C9: for a covered pixel barycentric returns Some(w) with every weight
\* >= 0 and w.x + w.y + w.z = 1.
C9_CoveredHasWeights ==
    phase = "weighed" =>
        /\ weights.some
        /\ \A i \in 1..3 : F32Le(F32Zero, weights.w[i])
        /\ F32Add(F32Add(weights.w[1], weights.w[2]), weights.w[3]) = F32One

\* C10: for a triangle of zero area the barycentric test covers no pixel and
\* point_in_triangle covers only pixels within 0.01 of an edge segment.
C10_DegenerateOnlyEdges ==
    (phase # "asked" /\ Area2(triangle) = 0)
        => /\ ~strict
           /\ covered => NearEdge(point, triangle)
====
